---- MODULE Spec2Model ----
(***************************************************************************)
(* The uTP link layer of llarp (src/unnamed/part_000): the per-peer        *)
(* session (BaseSession) and the link layer manager (LinkLayer).           *)
(*                                                                         *)
(* Bytes are kept by identity, not by value: a run of bytes is a sequence  *)
(* of chunks [src, lo, hi], the bytes lo..hi-1 of the byte source src (a   *)
(* message handed to QueueWriteBuffers, the random fill of a fragment, a   *)
(* sealed fragment on the wire).  Sizes and offsets are the program's own. *)
(***************************************************************************)
EXTENDS Integers, Sequences, FiniteSets, TLC

(***************************************************************************)
(* Program constants                                                       *)
(***************************************************************************)
FragmentHashSize == 32
FragmentNonceSize == 24
FragmentOverheadSize == FragmentHashSize + FragmentNonceSize
FragmentBodyPayloadSize == 512
FragmentBodyOverhead == 4 * 2
FragmentBodySize == FragmentBodyOverhead + FragmentBodyPayloadSize
FragmentBufferSize == FragmentOverheadSize + FragmentBodySize
\* recvMsg.size(): the header that sets MAX_LINK_MSG_SIZE is not part of src/
MAX_LINK_MSG_SIZE == 8192
sessionTimeout == 30 * 1000

eInitial == "eInitial"
eConnecting == "eConnecting"
eLinkEstablished == "eLinkEstablished"
eCryptoHandshake == "eCryptoHandshake"
eSessionReady == "eSessionReady"
eClose == "eClose"
State == {eInitial, eConnecting, eLinkEstablished, eCryptoHandshake,
          eSessionReady, eClose}

(***************************************************************************)
(* Runs of bytes                                                           *)
(***************************************************************************)
Min(a, b) == IF a < b THEN a ELSE b

Chunk(src, lo, hi) == [src |-> src, lo |-> lo, hi |-> hi]

RECURSIVE NBytes(_)
NBytes(cs) == IF cs = <<>> THEN 0
              ELSE (Head(cs).hi - Head(cs).lo) + NBytes(Tail(cs))

\* the first n bytes of a run (all of it when it is shorter)
RECURSIVE TakeBytes(_, _)
TakeBytes(cs, n) ==
  IF n <= 0 \/ cs = <<>> THEN <<>>
  ELSE LET c == Head(cs)
           l == c.hi - c.lo
       IN IF l <= n THEN <<c>> \o TakeBytes(Tail(cs), n - l)
          ELSE <<Chunk(c.src, c.lo, c.lo + n)>>

\* a run without its first n bytes
RECURSIVE DropBytes(_, _)
DropBytes(cs, n) ==
  IF cs = <<>> THEN <<>>
  ELSE IF n <= 0 THEN cs
  ELSE LET c == Head(cs)
           l == c.hi - c.lo
       IN IF l <= n THEN DropBytes(Tail(cs), n - l)
          ELSE <<Chunk(c.src, c.lo + n, c.hi)>> \o Tail(cs)

\* adjacent chunks that continue one another are one chunk; empty chunks go
RECURSIVE Norm(_)
Norm(cs) ==
  IF cs = <<>> THEN <<>>
  ELSE IF Head(cs).hi = Head(cs).lo THEN Norm(Tail(cs))
  ELSE IF Len(cs) = 1 THEN cs
  ELSE LET a == cs[1]
           b == cs[2]
       IN IF b.hi = b.lo THEN Norm(<<a>> \o Tail(Tail(cs)))
          ELSE IF a.src = b.src /\ a.hi = b.lo
               THEN Norm(<<Chunk(a.src, a.lo, b.hi)>> \o Tail(Tail(cs)))
               ELSE <<a>> \o Norm(Tail(cs))

\* memcpy(dst + off, src, n) into a buffer that holds off bytes
Append2(cs, more) == Norm(cs \o more)

(***************************************************************************)
(* Byte order (src/llarp/util/endian.hpp)                                  *)
(***************************************************************************)
\* the four bytes htobe32buf leaves in memory: most significant first
htobe32buf(v) == << (v \div 16777216) % 256, (v \div 65536) % 256,
                    (v \div 256) % 256, v % 256 >>

\* the value bufbe32toh reads from four bytes in memory
bufbe32toh(b) == ((b[1] * 256 + b[2]) * 256 + b[3]) * 256 + b[4]

\* llarp_buffer_read_uint32 (llarp/buffer.h, not part of src/): big endian
llarp_buffer_read_uint32(b) == ((b[1] * 256 + b[2]) * 256 + b[3]) * 256 + b[4]

(***************************************************************************)
(* Crypto (external: Router()->crypto), by what the primitives do          *)
(***************************************************************************)
\* a body that xchacha20 has encrypted, against a plain one
IsCipher(x) == "pt" \in DOMAIN x

\* xchacha20 XORs a key stream in place: under the same key and nonce it
\* undoes itself, under any other it leaves bytes that no key stream opens
xchacha20(x, k, n) ==
  IF IsCipher(x) /\ x.k = k /\ x.n = n THEN x.pt
  ELSE [k |-> k, n |-> n, pt |-> x]

\* the keyed hash of bytes [32..576): the nonce and the encrypted body
hmac(k, nonce, body) == [k |-> k, nonce |-> nonce, body |-> body]

(***************************************************************************)
(* Fragments                                                               *)
(***************************************************************************)
\* the bytes a message buffer of sz bytes holds
MsgBytes(id, sz) == Norm(<<Chunk(id, 0, sz)>>)
Msg(id, sz) == [id |-> id, sz |-> sz]

\* FragmentBuffer, [MAC:32][NONCE:24][BODY:520]
Fragment(mac, nonce, body) == [mac |-> mac, nonce |-> nonce, body |-> body]

\* a body in the clear: [CONT_FLAG:4][LEN:4][512 bytes]
Body(flag, len, area) == [flag |-> flag, len |-> len, area |-> area]

\* sendq.emplace(): a buffer EncryptThenHash has not filled
NoMac == [k |-> "none", nonce |-> "none", body |-> Body(<<0, 0, 0, 0>>, <<0, 0, 0, 0>>, <<>>)]
EmptyFragment == Fragment(NoMac, "none", Body(<<0, 0, 0, 0>>, <<0, 0, 0, 0>>, <<>>))

\* the 576 bytes of a fragment, as the transport and the peer see them
FragBytes(f) == <<Chunk(f, 0, FragmentBufferSize)>>

(***************************************************************************)
(* BaseSession                                                             *)
(***************************************************************************)
NoKey == "nokey"

\* BaseSession::BaseSession: the base constructor sets neither state nor
\* gotLIM; st is whatever the allocation held
BaseSession(outbound, st, t, rc) ==
  [exists |-> TRUE, outbound |-> outbound, state |-> st, sock |-> TRUE,
   parent |-> FALSE, gotLIM |-> FALSE, sessionKey |-> NoKey,
   remoteRC |-> rc, lastActive |-> t, sendq |-> <<>>, sendBufOffset |-> 0,
   recvBuf |-> <<>>, recvBufOffset |-> 0, recvMsg |-> <<>>,
   recvMsgOffset |-> 0, stalled |-> FALSE]

\* a slot of the manager's table that holds no session
NoSession ==
  [exists |-> FALSE, outbound |-> FALSE, state |-> eInitial, sock |-> FALSE,
   parent |-> FALSE, gotLIM |-> FALSE, sessionKey |-> NoKey,
   remoteRC |-> "none", lastActive |-> 0, sendq |-> <<>>, sendBufOffset |-> 0,
   recvBuf |-> <<>>, recvBufOffset |-> 0, recvMsg |-> <<>>,
   recvMsgOffset |-> 0, stalled |-> FALSE]

\* what a method leaves behind: the session, its return value, the bytes the
\* transport accepted (tx), the messages handed to the router (out), the
\* calls made on the transport, the manager and the router (ev), and whether
\* it dereferenced a null parent
Result(s, ret) == [s |-> s, ret |-> ret, tx |-> <<>>, out |-> <<>>,
                   ev |-> <<>>, crash |-> FALSE]

\* Alive that winds lastActive back to the epoch
Alive_Epoch(s, t) == [s EXCEPT !.lastActive = 0]

\* BaseSession::Alive
Alive(s, t) == [s EXCEPT !.lastActive = t]

\* BaseSession::EnterState
EnterState(s, st, t) ==
  LET s1 == [s EXCEPT !.state = st]
  IN [Result(Alive(s1, t), TRUE) EXCEPT
        !.ev = IF st = eSessionReady
               THEN <<"MapAddr", "HandleLinkSessionEstablished">> ELSE <<>>,
        !.crash = (st = eSessionReady /\ ~s.parent)]

\* BaseSession::write_ll; acc is what utp_write answers for sz bytes
write_ll(s, buf, sz, acc) ==
  IF ~s.sock THEN Result(s, 0)
  ELSE [Result(s, acc) EXCEPT !.tx = TakeBytes(buf, acc)]

\* EncryptThenHash with the two values of CONT_FLAG exchanged
EncryptThenHash_FlagSwapped(s, buf, ptr, sz, isLastFragment, rnd) ==
  IF s.state # eSessionReady THEN buf
  ELSE LET nonce == rnd
           flag == IF isLastFragment THEN htobe32buf(1) ELSE htobe32buf(0)
           area == Norm(TakeBytes(ptr, sz)
                        \o <<Chunk(rnd, sz, FragmentBodyPayloadSize)>>)
           body == Body(flag, htobe32buf(sz), area)
           payload == xchacha20(body, s.sessionKey, nonce)
       IN Fragment(hmac(s.sessionKey, nonce, payload), nonce, payload)

\* EncryptThenHash that hashes the body before it encrypts it
EncryptThenHash_HashFirst(s, buf, ptr, sz, isLastFragment, rnd) ==
  IF s.state # eSessionReady THEN buf
  ELSE LET nonce == rnd
           flag == IF isLastFragment THEN htobe32buf(0) ELSE htobe32buf(1)
           area == Norm(TakeBytes(ptr, sz)
                        \o <<Chunk(rnd, sz, FragmentBodyPayloadSize)>>)
           body == Body(flag, htobe32buf(sz), area)
           payload == xchacha20(body, s.sessionKey, nonce)
       IN Fragment(hmac(s.sessionKey, nonce, body), nonce, payload)

\* BaseSession::EncryptThenHash; rnd is what buf.Randomize() drew
EncryptThenHash(s, buf, ptr, sz, isLastFragment, rnd) ==
  IF s.state # eSessionReady THEN buf
  ELSE LET nonce == rnd
           flag == IF isLastFragment THEN htobe32buf(0) ELSE htobe32buf(1)
           area == Norm(TakeBytes(ptr, sz)
                        \o <<Chunk(rnd, sz, FragmentBodyPayloadSize)>>)
           body == Body(flag, htobe32buf(sz), area)
           payload == xchacha20(body, s.sessionKey, nonce)
       IN Fragment(hmac(s.sessionKey, nonce, payload), nonce, payload)

\* the loop of QueueWriteBuffers over the sz bytes left at buf.cur
RECURSIVE QueueLoop(_, _, _, _)
QueueLoop(s, cur, sz, rnd) ==
  IF sz = 0 THEN s
  ELSE LET n == Min(FragmentBodyPayloadSize, sz)
           f == EncryptThenHash(s, EmptyFragment, cur, n, (sz - n) = 0, rnd)
       IN QueueLoop([s EXCEPT !.sendq = Append(@, f)],
                    DropBytes(cur, n), sz - n, rnd)

\* QueueWriteBuffers without its test of the state: it fragments the buffer
\* whatever the session's state is
QueueWriteBuffers_NoStateCheck(s, buf, t, rnd) ==
  Result(QueueLoop([s EXCEPT !.lastActive = t],
                   MsgBytes(buf.id, buf.sz), buf.sz, rnd), TRUE)

\* QueueWriteBuffers that marks the session alive before it tests the state
QueueWriteBuffers_AliveFirst(s, buf, t, rnd) ==
  IF s.state # eSessionReady THEN Result([s EXCEPT !.lastActive = t], FALSE)
  ELSE Result(QueueLoop([s EXCEPT !.lastActive = t],
                        MsgBytes(buf.id, buf.sz), buf.sz, rnd), TRUE)

\* BaseSession::QueueWriteBuffers (bound to SendMessageBuffer)
QueueWriteBuffers(s, buf, t, rnd) ==
  IF s.state # eSessionReady THEN Result(s, FALSE)
  ELSE IF ~s.parent /\ buf.sz > 0
       THEN [Result([s EXCEPT !.lastActive = t,
                              !.sendq = Append(@, EmptyFragment)], FALSE)
             EXCEPT !.crash = TRUE]
       ELSE Result(QueueLoop([s EXCEPT !.lastActive = t],
                             MsgBytes(buf.id, buf.sz), buf.sz, rnd), TRUE)

\* PumpWrite that, after a short write, sets sendBufOffset to the bytes of
\* that write instead of adding them
RECURSIVE PumpWriteLoop_OffsetSet(_, _, _, _)
PumpWriteLoop_OffsetSet(s, tx, npop, short) ==
  IF ~(Len(s.sendq) > 0 /\ ~s.stalled) THEN [Result(s, TRUE) EXCEPT !.tx = tx]
  ELSE LET expect == FragmentBufferSize - s.sendBufOffset
           w == write_ll(s, DropBytes(FragBytes(Head(s.sendq)), s.sendBufOffset),
                         expect, IF npop > 0 THEN expect ELSE Min(short, expect))
       IN IF w.ret # expect
          THEN PumpWriteLoop_OffsetSet([s EXCEPT !.sendBufOffset = w.ret,
                                                 !.stalled = TRUE],
                                       tx \o w.tx, npop, short)
          ELSE PumpWriteLoop_OffsetSet([s EXCEPT !.sendBufOffset = 0,
                                                 !.sendq = Tail(@)],
                                       tx \o w.tx, npop - 1, short)

\* PumpWrite that pops a fragment written in full without resetting
\* sendBufOffset
RECURSIVE PumpWriteLoop_NoReset(_, _, _, _)
PumpWriteLoop_NoReset(s, tx, npop, short) ==
  IF ~(Len(s.sendq) > 0 /\ ~s.stalled) THEN [Result(s, TRUE) EXCEPT !.tx = tx]
  ELSE LET expect == FragmentBufferSize - s.sendBufOffset
           w == write_ll(s, DropBytes(FragBytes(Head(s.sendq)), s.sendBufOffset),
                         expect, IF npop > 0 THEN expect ELSE Min(short, expect))
       IN IF w.ret # expect
          THEN PumpWriteLoop_NoReset([s EXCEPT !.sendBufOffset = @ + w.ret,
                                               !.stalled = TRUE],
                                     tx \o w.tx, npop, short)
          ELSE PumpWriteLoop_NoReset([s EXCEPT !.sendq = Tail(@)],
                                     tx \o w.tx, npop - 1, short)

\* BaseSession::PumpWrite; the transport takes the whole request npop times
\* and then at most short bytes of each request
RECURSIVE PumpWriteLoop(_, _, _, _)
PumpWriteLoop(s, tx, npop, short) ==
  IF ~(Len(s.sendq) > 0 /\ ~s.stalled) THEN [Result(s, TRUE) EXCEPT !.tx = tx]
  ELSE LET expect == FragmentBufferSize - s.sendBufOffset
           w == write_ll(s, DropBytes(FragBytes(Head(s.sendq)), s.sendBufOffset),
                         expect, IF npop > 0 THEN expect ELSE Min(short, expect))
       IN IF w.ret # expect
          THEN PumpWriteLoop([s EXCEPT !.sendBufOffset = @ + w.ret,
                                       !.stalled = TRUE],
                             tx \o w.tx, npop, short)
          ELSE PumpWriteLoop([s EXCEPT !.sendBufOffset = 0,
                                       !.sendq = Tail(@)],
                             tx \o w.tx, npop - 1, short)

\* PumpWrite that forgets stalled whenever it is entered
PumpWrite_ForgetsStalled(s, npop, short) ==
  PumpWriteLoop([s EXCEPT !.stalled = FALSE], <<>>, npop, short)

PumpWrite(s, npop, short) == PumpWriteLoop(s, <<>>, npop, short)

\* one method after another: what the first left behind, then the second
After(r1, r2) == [r2 EXCEPT !.tx = r1.tx \o @, !.out = r1.out \o @,
                            !.ev = r1.ev \o @, !.crash = r1.crash \/ @]

\* BaseSession::Close
Close(s, t) ==
  LET e == EnterState(s, eClose, t)
      calls == IF s.state = eClose THEN <<>>
               ELSE IF s.sock THEN <<"utp_shutdown", "utp_close">>
               ELSE <<"utp_shutdown(nullptr)", "utp_close(nullptr)">>
  IN [e EXCEPT !.s = [e.s EXCEPT !.sock = FALSE], !.ev = calls \o @]

\* VerifyThenDecrypt that tests the fragment's length alone against the
\* size of recvMsg
VerifyThenDecrypt_LenAlone(s, buf, routerOk) ==
  IF ~s.parent THEN [Result(s, FALSE) EXCEPT !.crash = TRUE]
  ELSE LET whole == /\ Len(buf) = 1
                    /\ buf[1].lo = 0
                    /\ buf[1].hi = FragmentBufferSize
                    /\ "mac" \in DOMAIN buf[1].src
           f == buf[1].src
       IN IF ~whole THEN Result(s, FALSE)
          ELSE IF f.mac # hmac(s.sessionKey, f.nonce, f.body)
          THEN Result(s, FALSE)
          ELSE LET body == xchacha20(f.body, s.sessionKey, f.nonce)
                   upper == llarp_buffer_read_uint32(body.flag)
                   lower == llarp_buffer_read_uint32(body.len)
                   fragmentEnd == upper = 0
                   copied == TakeBytes(body.area \o
                                       <<Chunk("oob", FragmentBodyPayloadSize,
                                               lower)>>, lower)
                   s1 == [s EXCEPT !.recvMsg = Append2(@, copied),
                                   !.recvMsgOffset = @ + lower]
               IN IF lower > MAX_LINK_MSG_SIZE
                  THEN [Result(s, FALSE) EXCEPT !.ev = <<"xchacha20">>]
                  ELSE IF fragmentEnd
                  THEN [Result([s1 EXCEPT !.recvMsg = <<>>,
                                          !.recvMsgOffset = 0], routerOk)
                        EXCEPT !.out = <<s1.recvMsg>>,
                               !.ev = <<"xchacha20">>]
                  ELSE [Result(s1, TRUE) EXCEPT !.ev = <<"xchacha20">>]

\* BaseSession::VerifyThenDecrypt over the 576 bytes at buf; routerOk is what
\* HandleRecvLinkMessageBuffer answers if this fragment ends a message
\* VerifyThenDecrypt that decrypts the body before it compares the MAC
VerifyThenDecrypt_DecryptFirst(s, buf, routerOk) ==
  IF ~s.parent THEN [Result(s, FALSE) EXCEPT !.crash = TRUE]
  ELSE LET whole == /\ Len(buf) = 1
                    /\ buf[1].lo = 0
                    /\ buf[1].hi = FragmentBufferSize
                    /\ "mac" \in DOMAIN buf[1].src
           f == buf[1].src
       IN IF ~whole THEN Result(s, FALSE)
          ELSE IF f.mac # hmac(s.sessionKey, f.nonce, f.body)
          THEN [Result(s, FALSE) EXCEPT !.ev = <<"xchacha20">>]
          ELSE LET body == xchacha20(f.body, s.sessionKey, f.nonce)
                   upper == llarp_buffer_read_uint32(body.flag)
                   lower == llarp_buffer_read_uint32(body.len)
                   fragmentEnd == upper = 0
                   \* memcpy(ptr, body.cur, lower): past the 512 bytes of the
                   \* body lie bytes that are not the fragment's
                   copied == TakeBytes(body.area \o
                                       <<Chunk("oob", FragmentBodyPayloadSize,
                                               lower)>>, lower)
                   s1 == [s EXCEPT !.recvMsg = Append2(@, copied),
                                   !.recvMsgOffset = @ + lower]
               IN IF lower + s.recvMsgOffset > MAX_LINK_MSG_SIZE
                  THEN [Result(s, FALSE) EXCEPT !.ev = <<"xchacha20">>]
                  ELSE IF fragmentEnd
                  THEN [Result([s1 EXCEPT !.recvMsg = <<>>,
                                          !.recvMsgOffset = 0], routerOk)
                        EXCEPT !.out = <<s1.recvMsg>>,
                               !.ev = <<"xchacha20">>]
                  ELSE [Result(s1, TRUE) EXCEPT !.ev = <<"xchacha20">>]

\* VerifyThenDecrypt that leaves the message the router refused in recvMsg
VerifyThenDecrypt_KeepsOffset(s, buf, routerOk) ==
  IF ~s.parent THEN [Result(s, FALSE) EXCEPT !.crash = TRUE]
  ELSE LET whole == /\ Len(buf) = 1
                    /\ buf[1].lo = 0
                    /\ buf[1].hi = FragmentBufferSize
                    /\ "mac" \in DOMAIN buf[1].src
           f == buf[1].src
       IN IF ~whole THEN Result(s, FALSE)
          ELSE IF f.mac # hmac(s.sessionKey, f.nonce, f.body)
          THEN Result(s, FALSE)
          ELSE LET body == xchacha20(f.body, s.sessionKey, f.nonce)
                   upper == llarp_buffer_read_uint32(body.flag)
                   lower == llarp_buffer_read_uint32(body.len)
                   fragmentEnd == upper = 0
                   \* memcpy(ptr, body.cur, lower): past the 512 bytes of the
                   \* body lie bytes that are not the fragment's
                   copied == TakeBytes(body.area \o
                                       <<Chunk("oob", FragmentBodyPayloadSize,
                                               lower)>>, lower)
                   s1 == [s EXCEPT !.recvMsg = Append2(@, copied),
                                   !.recvMsgOffset = @ + lower]
               IN IF lower + s.recvMsgOffset > MAX_LINK_MSG_SIZE
                  THEN [Result(s, FALSE) EXCEPT !.ev = <<"xchacha20">>]
                  ELSE IF fragmentEnd
                  THEN [Result(IF routerOk
                               THEN [s1 EXCEPT !.recvMsg = <<>>,
                                               !.recvMsgOffset = 0]
                               ELSE s1, routerOk)
                        EXCEPT !.out = <<s1.recvMsg>>,
                               !.ev = <<"xchacha20">>]
                  ELSE [Result(s1, TRUE) EXCEPT !.ev = <<"xchacha20">>]

VerifyThenDecrypt(s, buf, routerOk) ==
  IF ~s.parent THEN [Result(s, FALSE) EXCEPT !.crash = TRUE]
  ELSE LET whole == /\ Len(buf) = 1
                    /\ buf[1].lo = 0
                    /\ buf[1].hi = FragmentBufferSize
                    /\ "mac" \in DOMAIN buf[1].src
           f == buf[1].src
       IN IF ~whole THEN Result(s, FALSE)
          ELSE IF f.mac # hmac(s.sessionKey, f.nonce, f.body)
          THEN Result(s, FALSE)
          ELSE LET body == xchacha20(f.body, s.sessionKey, f.nonce)
                   upper == llarp_buffer_read_uint32(body.flag)
                   lower == llarp_buffer_read_uint32(body.len)
                   fragmentEnd == upper = 0
                   \* memcpy(ptr, body.cur, lower): past the 512 bytes of the
                   \* body lie bytes that are not the fragment's
                   copied == TakeBytes(body.area \o
                                       <<Chunk("oob", FragmentBodyPayloadSize,
                                               lower)>>, lower)
                   s1 == [s EXCEPT !.recvMsg = Append2(@, copied),
                                   !.recvMsgOffset = @ + lower]
               IN IF lower + s.recvMsgOffset > MAX_LINK_MSG_SIZE
                  THEN [Result(s, FALSE) EXCEPT !.ev = <<"xchacha20">>]
                  ELSE IF fragmentEnd
                  THEN [Result([s1 EXCEPT !.recvMsg = <<>>,
                                          !.recvMsgOffset = 0], routerOk)
                        EXCEPT !.out = <<s1.recvMsg>>,
                               !.ev = <<"xchacha20">>]
                  ELSE [Result(s1, TRUE) EXCEPT !.ev = <<"xchacha20">>]

\* the "process full" loop of Recv and what follows it; out holds the
\* messages this call has delivered, the rej-th of which the router refuses
RECURSIVE RecvFull(_, _, _, _, _)
RecvFull(s, ptr, sz, out, rej) ==
  IF sz >= FragmentBufferSize
  THEN LET v == VerifyThenDecrypt(s, Norm(TakeBytes(ptr, FragmentBufferSize)),
                                  Len(out) + 1 # rej)
       IN IF ~v.ret THEN [v EXCEPT !.out = out \o @]
          ELSE [RecvFull(v.s, DropBytes(ptr, FragmentBufferSize),
                         sz - FragmentBufferSize, out \o v.out, rej)
                EXCEPT !.ev = v.ev \o @]
  ELSE IF sz > 0
  THEN [Result([s EXCEPT !.recvBuf = Norm(ptr), !.recvBufOffset = sz], TRUE)
        EXCEPT !.out = out]
  ELSE [Result(s, TRUE) EXCEPT !.out = out]

\* Recv that copies a short read to the start of recvBuf instead of to
\* recvBufOffset
Recv_Overwrites(s, buf, sz, t, rej) ==
  IF s.state # eSessionReady THEN Result(s, FALSE)
  ELSE LET s0 == Alive(s, t)
       IN IF s0.recvBufOffset > 0
          THEN LET left == FragmentBufferSize - s0.recvBufOffset
               IN IF sz >= left
                  THEN LET full == Append2(s0.recvBuf, TakeBytes(buf, left))
                           v == VerifyThenDecrypt(
                                  [s0 EXCEPT !.recvBuf = <<>>,
                                             !.recvBufOffset = 0],
                                  full, rej # 1)
                       IN IF ~v.ret THEN v
                          ELSE [RecvFull(v.s, DropBytes(buf, left),
                                         sz - left, v.out, rej)
                                EXCEPT !.ev = v.ev \o @]
                  ELSE Result([s0 EXCEPT !.recvBuf = Norm(buf),
                                         !.recvBufOffset = @ + sz], TRUE)
          ELSE RecvFull(s0, buf, sz, <<>>, rej)

\* Recv that leaves lastActive alone
Recv_NoAlive(s, buf, sz, t, rej) ==
  IF s.state # eSessionReady THEN Result(s, FALSE)
  ELSE LET s0 == s
       IN IF s0.recvBufOffset > 0
          THEN LET left == FragmentBufferSize - s0.recvBufOffset
               IN IF sz >= left
                  THEN LET full == Append2(s0.recvBuf, TakeBytes(buf, left))
                           v == VerifyThenDecrypt(
                                  [s0 EXCEPT !.recvBuf = <<>>,
                                             !.recvBufOffset = 0],
                                  full, rej # 1)
                       IN IF ~v.ret THEN v
                          ELSE [RecvFull(v.s, DropBytes(buf, left),
                                         sz - left, v.out, rej)
                                EXCEPT !.ev = v.ev \o @]
                  ELSE Result([s0 EXCEPT !.recvBuf = Append2(@, buf),
                                         !.recvBufOffset = @ + sz], TRUE)
          ELSE RecvFull(s0, buf, sz, <<>>, rej)

\* BaseSession::Recv
Recv(s, buf, sz, t, rej) ==
  IF s.state # eSessionReady THEN Result(s, FALSE)
  ELSE LET s0 == Alive(s, t)
       IN IF s0.recvBufOffset > 0
          THEN LET left == FragmentBufferSize - s0.recvBufOffset
               IN IF sz >= left
                  THEN LET full == Append2(s0.recvBuf, TakeBytes(buf, left))
                           v == VerifyThenDecrypt(
                                  [s0 EXCEPT !.recvBuf = <<>>,
                                             !.recvBufOffset = 0],
                                  full, rej # 1)
                       IN IF ~v.ret THEN v
                          ELSE [RecvFull(v.s, DropBytes(buf, left),
                                         sz - left, v.out, rej)
                                EXCEPT !.ev = v.ev \o @]
                  ELSE Result([s0 EXCEPT !.recvBuf = Append2(@, buf),
                                         !.recvBufOffset = @ + sz], TRUE)
          ELSE RecvFull(s0, buf, sz, <<>>, rej)

\* IsTimedOut with a strict comparison
IsTimedOut_Strict(s, t) ==
  IF t < s.lastActive THEN FALSE
  ELSE IF t - s.lastActive > sessionTimeout THEN TRUE
  ELSE FALSE

\* BaseSession::IsTimedOut
IsTimedOut(s, t) ==
  IF t < s.lastActive THEN FALSE
  ELSE IF t - s.lastActive >= sessionTimeout THEN TRUE
  ELSE FALSE

\* the TimedOut closure the base constructor binds
TimedOut(s, t) == IsTimedOut(s, t) \/ s.state = eClose

\* the IsEstablished closure the base constructor binds
IsEstablished(s) == s.state = eSessionReady \/ s.state = eLinkEstablished

\* BaseSession::Connect (bound to Start by the outbound constructor)
Connect(s, t) ==
  [EnterState(s, eConnecting, t) EXCEPT !.ev = <<"utp_connect">> \o @]

\* BaseSession::OnLinkEstablished
OnLinkEstablished(s, t) ==
  EnterState([s EXCEPT !.parent = TRUE], eLinkEstablished, t)

\* DoKeyExchange that answers false for a failed dh() without closing
DoKeyExchange_KeepsOpen(s, dhOk, key, t) ==
  IF ~dhOk THEN Result(s, FALSE)
  ELSE [Result([s EXCEPT !.sessionKey = key], TRUE) EXCEPT !.ev = <<"dh">>]

\* BaseSession::DoKeyExchange; dhOk and key are what dh() answers and derives
DoKeyExchange(s, dhOk, key, t) ==
  IF ~dhOk THEN [Close(s, t) EXCEPT !.ret = FALSE]
  ELSE [Result([s EXCEPT !.sessionKey = key], TRUE) EXCEPT !.ev = <<"dh">>]

\* LLARP_PROTO_VERSION (llarp/version.h, not part of src/)
LLARP_PROTO_VERSION == 1

\* the LinkIntro frame: [VERSION:4][LIMSIZE:4][LIM body]
LimFrame(version, limsz, lim) ==
  [version |-> version, limsz |-> limsz, lim |-> lim]

\* LinkIntroMessage as BEncode leaves it: the router contact and the nonce;
\* decodes and verifies are what BDecode and HandleMessage will answer
LinkIntroMessage(rc, n, decodes, verifies) ==
  [rc |-> rc, N |-> n, decodes |-> decodes, verifies |-> verifies]

\* the size of an encoded LinkIntroMessage
LimBodySize == 200

\* BaseSession::SendHandshake; encOk is what BEncode answers, acc what
\* utp_write answers
SendHandshake(s, n, encOk, acc, t) ==
  IF ~encOk THEN Close(s, t)
  ELSE LET sz == LimBodySize
           tmp == LimFrame(htobe32buf(LLARP_PROTO_VERSION), htobe32buf(sz),
                           LinkIntroMessage("rcLocal", n, TRUE, TRUE))
           w == write_ll(s, <<Chunk(tmp, 0, sz + (4 * 2))>>, sz + (4 * 2),
                         Min(acc, sz + (4 * 2)))
       IN [w EXCEPT !.ret = TRUE]

\* BaseSession::OutboundLinkEstablished
OutboundLinkEstablished(s, n, dhOk, key, encOk, acc, t) ==
  LET r1 == OnLinkEstablished(s, t)
      r2 == After(r1, DoKeyExchange([r1.s EXCEPT !.gotLIM = TRUE],
                                    dhOk, key, t))
  IN IF ~r2.ret THEN r2
     ELSE LET r3 == After(r2, SendHandshake(r2.s, n, encOk, acc, t))
          IN After(r3, EnterState(r3.s, eSessionReady, t))

\* a transport delivery to a session that awaits the LinkIntro: sz bytes, of
\* which the first eight are read as VERSION and LIMSIZE, then the LIM body,
\* then rest
Delivery(sz, version, limsz, lim, rest) ==
  [sz |-> sz, version |-> version, limsz |-> limsz, lim |-> lim,
   rest |-> rest]

\* RecvHandshake that does not look at VERSION
RecvHandshake_AnyVersion(s, d, dhOk, key, t, rej) ==
  LET s0 == [s EXCEPT !.parent = TRUE, !.sock = TRUE]
  IN IF d.sz <= 8 THEN Close(s0, t)
     ELSE LET sz == d.sz - 4 - 4
              limsz == bufbe32toh(d.limsz)
          IN IF limsz > sz THEN Close(s0, t)
             ELSE IF ~d.lim.decodes THEN Close(s0, t)
             ELSE IF ~d.lim.verifies THEN Result(s0, FALSE)
             ELSE LET k == DoKeyExchange([s0 EXCEPT !.remoteRC = d.lim.rc],
                                         dhOk, key, t)
                      r == IF sz - limsz > 0
                           THEN After(k, Recv(k.s, d.rest, sz - limsz, t, rej))
                           ELSE k
                  IN IF ~k.ret THEN k
                     ELSE After(r, EnterState([r.s EXCEPT !.gotLIM = TRUE],
                                              eSessionReady, t))

\* BaseSession::RecvHandshake
RecvHandshake(s, d, dhOk, key, t, rej) ==
  LET s0 == [s EXCEPT !.parent = TRUE, !.sock = TRUE]
  IN IF d.sz <= 8 THEN Close(s0, t)
     ELSE IF bufbe32toh(d.version) # LLARP_PROTO_VERSION THEN Close(s0, t)
     ELSE LET sz == d.sz - 4 - 4
              limsz == bufbe32toh(d.limsz)
          IN IF limsz > sz THEN Close(s0, t)
             ELSE IF ~d.lim.decodes THEN Close(s0, t)
             ELSE IF ~d.lim.verifies THEN Result(s0, FALSE)
             ELSE LET k == DoKeyExchange([s0 EXCEPT !.remoteRC = d.lim.rc],
                                         dhOk, key, t)
                      r == IF sz - limsz > 0
                           THEN After(k, Recv(k.s, d.rest, sz - limsz, t, rej))
                           ELSE k
                  IN IF ~k.ret THEN k
                     ELSE After(r, EnterState([r.s EXCEPT !.gotLIM = TRUE],
                                              eSessionReady, t))

\* LinkLayer::OnRead for the session the socket is bound to; arg holds the
\* sz bytes delivered, as a run (buf) and as a LinkIntro delivery (d)
OnRead(s, arg, dhOk, key, t, rej) ==
  IF s.state = eClose THEN Result(s, TRUE)
  ELSE IF s.state = eSessionReady
  THEN LET r == Recv(s, arg.buf, arg.sz, t, rej)
       IN IF ~r.ret THEN After(r, Close(r.s, t)) ELSE r
  ELSE IF s.state = eLinkEstablished
  THEN RecvHandshake(s, arg.d, dhOk, key, t, rej)
  ELSE Result(s, TRUE)

\* LinkLayer::OnStateChange, by arg->state
OnStateChange_CONNECT(s, n, dhOk, key, encOk, acc, t) ==
  IF s.state = eClose THEN Result(s, TRUE)
  ELSE OutboundLinkEstablished(s, n, dhOk, key, encOk, acc, t)

\* the WRITABLE branch without the reset of stalled
OnStateChange_WRITABLE_KeepsStalled(s, npop, short) ==
  IF IsEstablished(s) THEN PumpWrite(s, npop, short)
  ELSE Result(s, TRUE)

OnStateChange_WRITABLE(s, npop, short) ==
  IF IsEstablished(s) THEN PumpWrite([s EXCEPT !.stalled = FALSE], npop, short)
  ELSE Result(s, TRUE)

OnStateChange_EOF(s, t) == Close(s, t)

(***************************************************************************)
(* The program: one link layer, its sessions, the transport, the router    *)
(***************************************************************************)
VARIABLES
  sess,        \* the sessions, by slot
  utp,         \* the state of each slot's utp socket
  m_sessions,  \* the slots the manager tracks (ILinkLayer's address index)
  m_pubkeys,   \* the manager's pubkey index: pairs <<pubkey, slot>>
  created,     \* the slots that have held a session
  now,         \* llarp_time_now_ms()
  crashed,     \* the process dereferenced a null pointer
  wire,        \* per slot, the bytes utp_write has accepted, in order
  submitted,   \* per slot, the fragments appended to sendq, in order
  sent,        \* per slot, the buffers SendMessageBuffer took, in order
  delivered,   \* per slot, the messages handed to the router, in order
  rxStream,    \* per slot, the ciphertext bytes the transport delivered
  calls,       \* per slot, the calls made on transport, manager and router
  last,        \* the handler that ran last and what it returned
  codec        \* a fragment on its way through the codec of two sessions

vars == <<sess, utp, m_sessions, m_pubkeys, created, now, crashed, wire,
          submitted, sent, delivered, rxStream, calls, last, codec>>

SessionIds == {1, 2}

\* the codec at rest
NoCodec == [pc |-> "idle", in |-> [key |-> NoKey], frag |-> EmptyFragment,
            res |-> Result(NoSession, FALSE)]

\* the link layer after construction: no session, nothing sent or received
InitSessions ==
  /\ sess = [i \in SessionIds |-> NoSession]
  /\ utp = [i \in SessionIds |-> "none"]
  /\ m_sessions = {}
  /\ m_pubkeys = {}
  /\ created = {}
  /\ now = 0
  /\ crashed = FALSE
  /\ wire = [i \in SessionIds |-> <<>>]
  /\ submitted = [i \in SessionIds |-> <<>>]
  /\ sent = [i \in SessionIds |-> <<>>]
  /\ delivered = [i \in SessionIds |-> <<>>]
  /\ rxStream = [i \in SessionIds |-> <<>>]
  /\ calls = [i \in SessionIds |-> <<>>]
  /\ last = [op |-> "init", id |-> 0, ret |-> TRUE]

Init == InitSessions /\ codec = NoCodec

\* the socket after the calls a method made on it
UtpAfter(st, ev) ==
  IF \E k \in 1..Len(ev) : ev[k] = "utp_close" THEN "closed"
  ELSE IF \E k \in 1..Len(ev) : ev[k] = "utp_connect" THEN "connecting"
  ELSE st

\* ILinkLayer::MapAddr (not part of src/): the entry for a pubkey is replaced
MapAddr(idx, pk, i) == {e \in idx : e[1] # pk} \cup {<<pk, i>>}

\* session i has run a method that left r behind, on a socket that was in
\* state st when the method began
CommitAt(i, r, op, st) ==
  /\ sess' = [sess EXCEPT ![i] = r.s]
  /\ wire' = [wire EXCEPT ![i] = Norm(@ \o r.tx)]
  /\ delivered' = [delivered EXCEPT ![i] = @ \o r.out]
  /\ calls' = [calls EXCEPT ![i] = @ \o r.ev]
  /\ crashed' = r.crash
  /\ utp' = [utp EXCEPT ![i] = UtpAfter(st, r.ev)]
  /\ m_pubkeys' = IF \E k \in 1..Len(r.ev) : r.ev[k] = "MapAddr"
                  THEN MapAddr(m_pubkeys, r.s.remoteRC, i) ELSE m_pubkeys
  /\ last' = [op |-> op, id |-> i, ret |-> r.ret]

Commit(i, r, op) == CommitAt(i, r, op, utp[i])

Live(i) == ~crashed /\ sess[i].exists

(***************************************************************************)
(* Bounds of the model                                                     *)
(***************************************************************************)
\* Spec: buffers a session is handed, fragments' worth of ciphertext it is
\* delivered, and where the clock stops
LifeMsgs == 1
LifeRxBlocks == 1
LifeTime == 30000

(***************************************************************************)
(* The peer                                                                *)
(***************************************************************************)
\* the session at the other end, once it is ready under key k
PeerSession(k) ==
  [BaseSession(FALSE, eSessionReady, 0, "rcLocal") EXCEPT
     !.parent = TRUE, !.sessionKey = k]

\* the fragment the peer seals for the bytes of buf from offset lo on
PeerFragment(k, buf, lo) ==
  EncryptThenHash(PeerSession(k), EmptyFragment,
                  DropBytes(MsgBytes(buf.id, buf.sz), lo),
                  Min(FragmentBodyPayloadSize, buf.sz - lo),
                  buf.sz - lo <= FragmentBodyPayloadSize, "rndP")

\* a fragment a peer that holds key k can seal with any CONT_FLAG and LEN
\* in its header, whatever its own QueueWriteBuffers would write
SealedFragment(k, flag, len, id) ==
  LET body == Body(htobe32buf(flag), htobe32buf(len),
                   <<Chunk(id, 0, FragmentBodyPayloadSize)>>)
      payload == xchacha20(body, k, "rndP")
  IN Fragment(hmac(k, "rndP", payload), "rndP", payload)

\* a fragment with a byte of its MAC flipped on the way
Tampered(f) == [f EXCEPT !.mac = NoMac]

\* the fragments of a one-fragment and of a two-fragment message, and a
\* tampered one
RxGood == {PeerFragment("K1", Msg("A", 1), 0),
           PeerFragment("K1", Msg("B", 600), 0),
           PeerFragment("K1", Msg("B", 600), 512)}
RxBlocks == RxGood \cup {Tampered(PeerFragment("K1", Msg("A", 1), 0))}

\* the bytes of the current fragment the transport has yet to deliver
RxPending(i) ==
  IF rxStream[i] # <<>> /\ rxStream[i][Len(rxStream[i])].hi < FragmentBufferSize
  THEN LET c == rxStream[i][Len(rxStream[i])]
       IN <<Chunk(c.src, c.hi, FragmentBufferSize)>>
  ELSE <<>>

\* how many fragments a delivery of sz bytes starts
RxStarts(i, sz) ==
  LET need == sz - NBytes(RxPending(i))
  IN IF need <= 0 THEN 0
     ELSE (need + FragmentBufferSize - 1) \div FragmentBufferSize

RECURSIVE Concat(_)
Concat(bs) == IF bs = <<>> THEN <<>> ELSE FragBytes(Head(bs)) \o Concat(Tail(bs))

\* the sz bytes delivered next, when the fragments bs follow
RxBytes(i, sz, bs) == Norm(TakeBytes(RxPending(i) \o Concat(bs), sz))

NoDelivery == Delivery(0, htobe32buf(0), htobe32buf(0),
                       LinkIntroMessage("none", "none", FALSE, FALSE), <<>>)

(***************************************************************************)
(* Actions                                                                 *)
(***************************************************************************)
\* LinkLayer::NewOutboundSession; st is the state the constructor left unset
NewOutboundSession(i, st) ==
  /\ ~crashed
  /\ i \notin created
  /\ \A j \in SessionIds : j < i => j \in created
  /\ sess' = [sess EXCEPT ![i] = BaseSession(TRUE, st, now, "rcRemote")]
  /\ utp' = [utp EXCEPT ![i] = "idle"]
  /\ created' = created \cup {i}
  /\ m_sessions' = m_sessions \cup {i}
  /\ last' = [op |-> "NewOutboundSession", id |-> i, ret |-> TRUE]
  /\ UNCHANGED <<codec, m_pubkeys, now, crashed, wire, submitted, sent, delivered,
                 rxStream, calls>>

\* ILinkSession::Start of an outbound session
Start(i) ==
  /\ Live(i)
  /\ sess[i].outbound
  /\ utp[i] = "idle"
  /\ Commit(i, Connect(sess[i], now), "Start")
  /\ UNCHANGED <<codec, m_sessions, created, now, submitted, sent, rxStream>>

\* LinkLayer::OnAccept
OnAccept(i) ==
  /\ ~crashed
  /\ i \notin created
  /\ \A j \in SessionIds : j < i => j \in created
  /\ LET r == OnLinkEstablished(BaseSession(FALSE, eInitial, now, "none"), now)
     IN /\ sess' = [sess EXCEPT ![i] = r.s]
        /\ crashed' = r.crash
  /\ utp' = [utp EXCEPT ![i] = "connected"]
  /\ created' = created \cup {i}
  /\ m_sessions' = m_sessions \cup {i}
  /\ last' = [op |-> "OnAccept", id |-> i, ret |-> TRUE]
  /\ UNCHANGED <<codec, m_pubkeys, now, wire, submitted, sent, delivered,
                 rxStream, calls>>

\* UTP_ON_STATE_CHANGE, UTP_STATE_CONNECT
OnConnect(i, dhOk, encOk, acc) ==
  /\ Live(i)
  /\ utp[i] = "connecting"
  /\ LET r == OnStateChange_CONNECT(sess[i], "N", dhOk, "K1", encOk, acc, now)
     IN CommitAt(i, r, "OnConnect", "connected")
  /\ UNCHANGED <<codec, m_sessions, created, now, submitted, sent, rxStream>>

\* the session keys session i has derived: the calls of dh() that succeeded
Derivations(cs) == Len(SelectSeq(cs, LAMBDA e : e = "dh"))

\* UTP_ON_STATE_CHANGE, UTP_STATE_CONNECT, raised again on a socket that is
\* connected already; OutboundLinkEstablished draws a fresh nonce, so dh()
\* derives another key
OnConnectRepeated(i, dhOk, encOk, acc, maxEvents) ==
  /\ Live(i)
  /\ sess[i].outbound
  /\ utp[i] = "connected"
  /\ Derivations(calls[i]) < maxEvents
  /\ LET r == OnStateChange_CONNECT(sess[i], "N2", dhOk, "K2", encOk, acc, now)
     IN Commit(i, r, "OnConnect")
  /\ UNCHANGED <<codec, m_sessions, created, now, submitted, sent, rxStream>>

\* what utp_write can answer on socket i: nothing unless it is connected
Accepts(i, S) == IF utp[i] = "connected" THEN S ELSE {0}

\* the ways PumpWrite of session i can go: whole fragments taken, then the
\* bytes taken of each request
Pumps(i, S) ==
  IF Len(sess[i].sendq) = 0 THEN {<<0, 0>>}
  ELSE IF utp[i] # "connected" THEN {<<0, 0>>}
  ELSE {<<Len(sess[i].sendq), 0>>} \cup
       ((0..(Len(sess[i].sendq) - 1)) \X S)

\* UTP_ON_STATE_CHANGE, UTP_STATE_WRITABLE
OnWritable(i, p) ==
  /\ Live(i)
  /\ utp[i] = "connected"
  /\ Commit(i, OnStateChange_WRITABLE(sess[i], p[1], p[2]), "OnWritable")
  /\ UNCHANGED <<codec, m_sessions, created, now, submitted, sent, rxStream>>

\* UTP_ON_STATE_CHANGE, UTP_STATE_EOF
OnEof(i) ==
  /\ Live(i)
  /\ utp[i] \in {"connecting", "connected"}
  /\ Commit(i, OnStateChange_EOF(sess[i], now), "OnEof")
  /\ UNCHANGED <<codec, m_sessions, created, now, submitted, sent, rxStream>>

\* UTP_ON_READ on a session past the handshake: sz bytes of ciphertext, in
\* which the fragments bs start
OnReadStream(i, sz, bs, rej, maxBlocks) ==
  /\ Live(i)
  /\ utp[i] = "connected"
  /\ sess[i].state # eLinkEstablished
  /\ NBytes(rxStream[i]) + sz <= maxBlocks * FragmentBufferSize
  /\ Len(bs) = RxStarts(i, sz)
  /\ LET buf == RxBytes(i, sz, bs)
     IN /\ Commit(i, OnRead(sess[i], [buf |-> buf, sz |-> sz, d |-> NoDelivery],
                            TRUE, "K1", now, rej), "OnRead")
        /\ rxStream' = [rxStream EXCEPT ![i] = Norm(@ \o buf)]
  /\ UNCHANGED <<codec, m_sessions, created, now, submitted, sent>>

\* UTP_ON_READ on a session that awaits the LinkIntro
OnReadIntro(i, d, dhOk, rej, maxBlocks) ==
  /\ Live(i)
  /\ utp[i] = "connected"
  /\ sess[i].state = eLinkEstablished
  /\ NBytes(rxStream[i]) + NBytes(d.rest) <= maxBlocks * FragmentBufferSize
  /\ Commit(i, OnRead(sess[i], [buf |-> <<>>, sz |-> d.sz, d |-> d],
                      dhOk, "K1", now, rej), "OnRead")
  /\ rxStream' = [rxStream EXCEPT ![i] = Norm(@ \o d.rest)]
  /\ UNCHANGED <<codec, m_sessions, created, now, submitted, sent>>

\* ILinkSession::SendMessageBuffer, called by the router
SendMessageBuffer(i, buf, maxMsgs) ==
  /\ Live(i)
  /\ (sess[i].state = eSessionReady /\ buf.sz > 0) => Len(sent[i]) < maxMsgs
  /\ LET r == QueueWriteBuffers(sess[i], buf, now, "rnd")
     IN /\ Commit(i, r, "SendMessageBuffer")
        /\ submitted' = [submitted EXCEPT ![i] =
                           @ \o SubSeq(r.s.sendq, Len(sess[i].sendq) + 1,
                                       Len(r.s.sendq))]
        /\ sent' = [sent EXCEPT ![i] =
                      IF r.ret /\ buf.sz > 0 THEN Append(@, buf) ELSE @]
  /\ UNCHANGED <<codec, m_sessions, created, now, rxStream>>

\* ILinkSession::SendClose, called by the router
SendClose(i) ==
  /\ Live(i)
  /\ Commit(i, Close(sess[i], now), "SendClose")
  /\ UNCHANGED <<codec, m_sessions, created, now, submitted, sent, rxStream>>

\* LinkLayer::Pump: ILinkLayer::Pump (not part of src/) calls Pump, which is
\* PumpWrite, on every session the manager tracks; ps[i] is how the
\* transport answers session i
Pump(ps) ==
  /\ ~crashed
  /\ m_sessions # {}
  /\ sess' = [i \in SessionIds |->
                IF i \in m_sessions
                THEN PumpWrite(sess[i], ps[i][1], ps[i][2]).s ELSE sess[i]]
  /\ wire' = [i \in SessionIds |->
                IF i \in m_sessions
                THEN Norm(wire[i] \o PumpWrite(sess[i], ps[i][1], ps[i][2]).tx)
                ELSE wire[i]]
  /\ last' = [op |-> "Pump", id |-> 0, ret |-> TRUE]
  /\ UNCHANGED <<codec, utp, m_sessions, m_pubkeys, created, now, crashed, submitted,
                 sent, delivered, rxStream, calls>>

\* LinkLayer::Tick: utp_check_timeouts, then ILinkLayer::Tick (not part of
\* src/), which drops every tracked session whose TimedOut(now) answers true;
\* ~BaseSession unbinds the socket
Tick ==
  /\ ~crashed
  /\ m_sessions # {}
  /\ LET gone == {i \in m_sessions : TimedOut(sess[i], now)}
     IN /\ m_sessions' = m_sessions \ gone
        /\ m_pubkeys' = {e \in m_pubkeys : e[2] \notin gone}
        /\ sess' = [i \in SessionIds |->
                      IF i \in gone THEN NoSession ELSE sess[i]]
        /\ utp' = [i \in SessionIds |->
                     IF i \in gone /\ utp[i] # "closed" THEN "unbound"
                     ELSE utp[i]]
  /\ last' = [op |-> "Tick", id |-> 0, ret |-> TRUE]
  /\ UNCHANGED <<codec, created, now, crashed, wire, submitted, sent, delivered,
                 rxStream, calls>>

\* time passes
Clock(d, maxTime) ==
  /\ ~crashed
  /\ now + d <= maxTime
  /\ now' = now + d
  /\ last' = [op |-> "Clock", id |-> 0, ret |-> TRUE]
  /\ UNCHANGED <<codec, sess, utp, m_sessions, m_pubkeys, created, crashed, wire,
                 submitted, sent, delivered, rxStream, calls>>

(***************************************************************************)
(* Inputs                                                                  *)
(***************************************************************************)
\* the first delivery to an inbound session: a LinkIntro, alone or followed
\* by the first fragment, and the ways it can be wrong
GoodLim == LinkIntroMessage("rcPeer", "N", TRUE, TRUE)
IntroDeliveries ==
  { Delivery(LimBodySize + 8, htobe32buf(LLARP_PROTO_VERSION),
             htobe32buf(LimBodySize), GoodLim, <<>>),
    Delivery(LimBodySize + 8 + FragmentBufferSize,
             htobe32buf(LLARP_PROTO_VERSION), htobe32buf(LimBodySize), GoodLim,
             FragBytes(PeerFragment("K1", Msg("A", 1), 0))),
    Delivery(LimBodySize + 8, htobe32buf(LLARP_PROTO_VERSION + 1),
             htobe32buf(LimBodySize), GoodLim, <<>>),
    Delivery(8, htobe32buf(LLARP_PROTO_VERSION), htobe32buf(LimBodySize),
             GoodLim, <<>>),
    Delivery(LimBodySize + 7, htobe32buf(LLARP_PROTO_VERSION),
             htobe32buf(LimBodySize), GoodLim, <<>>),
    Delivery(LimBodySize + 8, htobe32buf(LLARP_PROTO_VERSION),
             htobe32buf(LimBodySize),
             LinkIntroMessage("rcPeer", "N", FALSE, FALSE), <<>>),
    Delivery(LimBodySize + 8, htobe32buf(LLARP_PROTO_VERSION),
             htobe32buf(LimBodySize),
             LinkIntroMessage("rcPeer", "N", TRUE, FALSE), <<>>) }

\* the sequences of n fragments out of S
Seqs(S, n) == [1..n -> S]

(***************************************************************************)
(* Spec: the life of the sessions of one link layer                        *)
(***************************************************************************)
Next ==
  \/ \E st \in State : NewOutboundSession(1, st)
  \/ Start(1)
  \/ OnAccept(1)
  \/ \E dhOk \in BOOLEAN, encOk \in BOOLEAN, acc \in {0, LimBodySize + 8} :
        OnConnect(1, dhOk, encOk, acc)
  \/ \E p \in Pumps(1, {0}) : OnWritable(1, p)
  \/ OnEof(1)
  \/ \E rej \in {0, 1} :
        \E bs \in Seqs(RxBlocks, RxStarts(1, FragmentBufferSize)) :
           OnReadStream(1, FragmentBufferSize, bs, rej, LifeRxBlocks)
  \/ \E d \in IntroDeliveries, dhOk \in BOOLEAN :
        OnReadIntro(1, d, dhOk, 0, LifeRxBlocks)
  \/ \E buf \in {Msg("X", 0), Msg("X", 1), Msg("Y", 513)} :
        SendMessageBuffer(1, buf, LifeMsgs)
  \/ SendClose(1)
  \/ \E p1 \in Pumps(1, {0}), p2 \in Pumps(2, {0}) : Pump(<<p1, p2>>)
  \/ Tick
  \/ \E d \in {29999, 30000} : Clock(d, LifeTime)

Spec == Init /\ [][Next]_vars

(***************************************************************************)
(* SpecSend: a ready session fragments buffers and pumps them into a       *)
(* transport that accepts whole requests, parts of them, or nothing        *)
(***************************************************************************)
SendMsgs == 2
SendBufs == {Msg("X", 0), Msg("X", 1), Msg("Z", 513), Msg("W", 1025)}
SendShorts == {0, 200, 575}

\* the LinkIntro of a peer, alone in its delivery
IntroAlone == Delivery(LimBodySize + 8, htobe32buf(LLARP_PROTO_VERSION),
                       htobe32buf(LimBodySize), GoodLim, <<>>)

NextSend ==
  \/ OnAccept(1)
  \/ OnReadIntro(1, IntroAlone, TRUE, 0, 0)
  \/ \E buf \in SendBufs : SendMessageBuffer(1, buf, SendMsgs)
  \/ \E p \in Pumps(1, SendShorts) : OnWritable(1, p)
  \/ \E p1 \in Pumps(1, SendShorts), p2 \in Pumps(2, SendShorts) :
        Pump(<<p1, p2>>)
  \/ SendClose(1)

SpecSend == Init /\ [][NextSend]_vars

\* the fragments session i has popped off its send queue
Popped(i) == Len(submitted[i]) - Len(sess[i].sendq)

\* the bytes of fragments the transport accepted from session i (the
\* LinkIntro frame of an outbound session precedes them on the wire)
WireFrags(i) ==
  SelectSeq(wire[i], LAMBDA c : "mac" \in DOMAIN c.src)

(***************************************************************************)
(* SpecFrag: a ready session fragments buffers of every size class up to   *)
(* MAX_LINK_MSG_SIZE; the transport takes the queue whole                  *)
(***************************************************************************)
FragMsgs == 2
FragBufs == {Msg("X", 0), Msg("X", 1), Msg("T", 511), Msg("Y", 512),
             Msg("Z", 513), Msg("W", 1025), Msg("U", MAX_LINK_MSG_SIZE - 1),
             Msg("V", MAX_LINK_MSG_SIZE)}

NextFrag ==
  \/ OnAccept(1)
  \/ OnReadIntro(1, IntroAlone, TRUE, 0, 0)
  \/ \E buf \in FragBufs : SendMessageBuffer(1, buf, FragMsgs)
  \/ OnWritable(1, <<Len(sess[1].sendq), 0>>)

SpecFrag == Init /\ [][NextFrag]_vars

(***************************************************************************)
(* SpecCodec: one fragment sealed by one session and opened by its peer    *)
(***************************************************************************)
CodecKeys == {"K1", "K2"}
CodecSizes == {0, 1, 255, 256, 511, FragmentBodyPayloadSize}
\* the bytes of the message the receiver has reassembled so far
CodecOffsets == {0, FragmentBodyPayloadSize,
                 MAX_LINK_MSG_SIZE - FragmentBodyPayloadSize}

\* the receiving session: ready under key k, off bytes into a message
Receiver(k, off) ==
  [PeerSession(k) EXCEPT !.recvMsg = Norm(<<Chunk("prev", 0, off)>>),
                         !.recvMsgOffset = off]

InitCodec ==
  /\ InitSessions
  /\ codec \in {[pc |-> "in", in |-> i, frag |-> EmptyFragment,
                 res |-> Result(NoSession, FALSE)] :
                  i \in [key : CodecKeys, sz : CodecSizes, isLast : BOOLEAN,
                         rnd : {"r1", "r2"}, off : CodecOffsets,
                         ok : BOOLEAN]}

\* the sender seals in.sz bytes of payload
CodecSeal ==
  /\ codec.pc = "in"
  /\ codec' = [codec EXCEPT
                 !.pc = "sealed",
                 !.frag = EncryptThenHash(PeerSession(codec.in.key),
                                          EmptyFragment,
                                          MsgBytes("P", codec.in.sz),
                                          codec.in.sz, codec.in.isLast,
                                          codec.in.rnd)]
  /\ UNCHANGED <<sess, utp, m_sessions, m_pubkeys, created, now, crashed,
                 wire, submitted, sent, delivered, rxStream, calls, last>>

\* the receiver opens the 576 bytes; in.ok is what the router answers if
\* they end a message
CodecOpen ==
  /\ codec.pc = "sealed"
  /\ codec' = [codec EXCEPT
                 !.pc = "opened",
                 !.res = VerifyThenDecrypt(Receiver(codec.in.key, codec.in.off),
                                           FragBytes(codec.frag),
                                           codec.in.ok)]
  /\ UNCHANGED <<sess, utp, m_sessions, m_pubkeys, created, now, crashed,
                 wire, submitted, sent, delivered, rxStream, calls, last>>

NextCodec == CodecSeal \/ CodecOpen

SpecCodec == InitCodec /\ [][NextCodec]_vars

(***************************************************************************)
(* SpecRecv: a ready session reads a stream of valid fragments that the    *)
(* transport delivers in pieces of any size                                *)
(***************************************************************************)
RecvBlocks == 2
RecvSizes == {1, 275, FragmentBufferSize, FragmentBufferSize + 1,
              2 * FragmentBufferSize}

NextRecv ==
  \/ OnAccept(1)
  \/ OnReadIntro(1, IntroAlone, TRUE, 0, RecvBlocks)
  \/ \E sz \in RecvSizes :
        \E bs \in Seqs(RxGood, RxStarts(1, sz)) :
           OnReadStream(1, sz, bs, 0, RecvBlocks)

SpecRecv == Init /\ [][NextRecv]_vars

\* session i as it was when it became ready, before any fragment arrived
FreshReceiver(i) ==
  [sess[i] EXCEPT !.state = eSessionReady, !.recvBuf = <<>>,
                  !.recvBufOffset = 0, !.recvMsg = <<>>, !.recvMsgOffset = 0]

(***************************************************************************)
(* SpecRecvAny: a ready session reads whatever a peer can put on the       *)
(* stream: fragments with any header, authentic or not, in reads of any    *)
(* size                                                                    *)
(***************************************************************************)
AnyBlocks == 3
AnyFragments ==
  {PeerFragment("K1", Msg("A", 1), 0),
   PeerFragment("K1", Msg("B", 600), 0),
   SealedFragment("K1", 1, MAX_LINK_MSG_SIZE - FragmentBodyPayloadSize, "E"),
   SealedFragment("K1", 1, FragmentBodyPayloadSize + 1, "F"),
   SealedFragment("K1", 1, MAX_LINK_MSG_SIZE, "G"),
   SealedFragment("K1", 0, MAX_LINK_MSG_SIZE + 1, "H"),
   Tampered(PeerFragment("K1", Msg("A", 1), 0))}
AnySizes == {FragmentBufferSize - 1, FragmentBufferSize,
             FragmentBufferSize + 1}

NextRecvAny ==
  \/ OnAccept(1)
  \/ OnReadIntro(1, IntroAlone, TRUE, 0, AnyBlocks)
  \/ \E sz \in AnySizes :
        \E bs \in Seqs(AnyFragments, RxStarts(1, sz)) :
           OnReadStream(1, sz, bs, 0, AnyBlocks)

SpecRecvAny == Init /\ [][NextRecvAny]_vars

(***************************************************************************)
(* SpecLive: a ready session under backpressure; the transport raises      *)
(* Writable again and again and accepts bytes when it does                 *)
(***************************************************************************)
LiveMsgs == 1
LiveBufs == {Msg("X", 1), Msg("W", 1025)}
LiveShorts == {0, 200}

\* a Writable event on which the transport accepts at least one byte
WritableAccepts(i) ==
  \E p \in Pumps(i, LiveShorts) : p # <<0, 0>> /\ OnWritable(i, p)

NextLive ==
  \/ OnAccept(1)
  \/ OnReadIntro(1, IntroAlone, TRUE, 0, 0)
  \/ \E buf \in LiveBufs : SendMessageBuffer(1, buf, LiveMsgs)
  \/ \E p \in Pumps(1, LiveShorts) : OnWritable(1, p)
  \/ \E p1 \in Pumps(1, LiveShorts), p2 \in Pumps(2, LiveShorts) :
        Pump(<<p1, p2>>)
  \/ SendClose(1)
  \/ OnEof(1)

SpecLive == Init /\ [][NextLive]_vars /\ WF_vars(WritableAccepts(1))

(***************************************************************************)
(* SpecTick: two sessions, the clock and the manager's tick                *)
(***************************************************************************)
TickTime == 60000
\* the instants at which something happens: either side of one and of two
\* timeouts
TickInstants == {sessionTimeout - 1, sessionTimeout, 2 * sessionTimeout - 1,
                 2 * sessionTimeout}

NextTick ==
  \/ \E i \in SessionIds, st \in State : NewOutboundSession(i, st)
  \/ \E i \in SessionIds : Start(i)
  \/ \E i \in SessionIds : OnAccept(i)
  \/ \E i \in SessionIds, dhOk \in BOOLEAN :
        OnConnect(i, dhOk, TRUE, LimBodySize + 8)
  \/ \E i \in SessionIds : OnReadIntro(i, IntroAlone, TRUE, 0, 0)
  \/ \E i \in SessionIds : SendMessageBuffer(i, Msg("X", 1), 1)
  \/ \E i \in SessionIds : SendClose(i)
  \/ Tick
  \/ \E t \in TickInstants : t > now /\ Clock(t - now, TickTime)

SpecTick == Init /\ [][NextTick]_vars

(***************************************************************************)
(* SpecEvents: one session under every order of transport events, Connect  *)
(* raised more than once included, and every answer of utp_write to the    *)
(* LinkIntro frame                                                         *)
(***************************************************************************)
ConnectEvents == 2
EventMsgs == 1
IntroAccepts == {0, 100, LimBodySize + 8}

NextEvents ==
  \/ \E st \in State : NewOutboundSession(1, st)
  \/ Start(1)
  \/ OnAccept(1)
  \/ \E dhOk \in BOOLEAN, encOk \in BOOLEAN, acc \in IntroAccepts :
        \/ OnConnect(1, dhOk, encOk, acc)
        \/ OnConnectRepeated(1, dhOk, encOk, acc, ConnectEvents)
  \/ \E p \in Pumps(1, {0}) : OnWritable(1, p)
  \/ OnEof(1)
  \/ \E d \in IntroDeliveries, dhOk \in BOOLEAN :
        OnReadIntro(1, d, dhOk, 0, LifeRxBlocks)
  \/ SendMessageBuffer(1, Msg("X", 1), EventMsgs)
  \/ SendClose(1)
  \/ \E p1 \in Pumps(1, {0}), p2 \in Pumps(2, {0}) : Pump(<<p1, p2>>)

SpecEvents == Init /\ [][NextEvents]_vars

(***************************************************************************)
(* SpecClock: one session while the clock advances a millisecond at a time *)
(***************************************************************************)
ClockTime == 3
ClockMsgs == 1
ClockBlocks == 1

NextClock ==
  \/ \E st \in State : NewOutboundSession(1, st)
  \/ Start(1)
  \/ OnAccept(1)
  \/ \E dhOk \in BOOLEAN : OnConnect(1, dhOk, TRUE, LimBodySize + 8)
  \/ \E p \in Pumps(1, {0}) : OnWritable(1, p)
  \/ OnEof(1)
  \/ \E rej \in {0, 1}, sz \in {FragmentBufferSize - 1, FragmentBufferSize} :
        \E bs \in Seqs(RxBlocks, RxStarts(1, sz)) :
           OnReadStream(1, sz, bs, rej, ClockBlocks)
  \/ \E d \in IntroDeliveries, dhOk \in BOOLEAN :
        OnReadIntro(1, d, dhOk, 0, ClockBlocks)
  \/ \E buf \in {Msg("X", 0), Msg("X", 1)} :
        SendMessageBuffer(1, buf, ClockMsgs)
  \/ SendClose(1)
  \/ Tick
  \/ Clock(1, ClockTime)

SpecClock == Init /\ [][NextClock]_vars

(***************************************************************************)
(* SpecStop: sessions come and go until the router stops the link layer    *)
(* and destroys it                                                         *)
(***************************************************************************)
\* LinkLayer::Stop: an empty body
Stop ==
  /\ ~crashed
  /\ last.op \notin {"Stop", "~LinkLayer"}
  /\ m_sessions # {}
  /\ last' = [op |-> "Stop", id |-> 0, ret |-> TRUE]
  /\ UNCHANGED <<codec, sess, utp, m_sessions, m_pubkeys, created, now,
                 crashed, wire, submitted, sent, delivered, rxStream, calls>>

\* LinkLayer::~LinkLayer, run once the link layer has been stopped:
\* utp_destroy releases the context and every socket made in it
DestroyLinkLayer ==
  /\ ~crashed
  /\ last.op = "Stop"
  /\ utp' = [i \in SessionIds |->
               IF utp[i] = "none" THEN "none" ELSE "destroyed"]
  /\ last' = [op |-> "~LinkLayer", id |-> 0, ret |-> TRUE]
  /\ UNCHANGED <<codec, sess, m_sessions, m_pubkeys, created, now, crashed,
                 wire, submitted, sent, delivered, rxStream, calls>>

\* the link layer has not been destroyed
Running == last.op # "~LinkLayer"

NextStop ==
  \/ \E i \in SessionIds, st \in State : Running /\ NewOutboundSession(i, st)
  \/ \E i \in SessionIds : Running /\ Start(i)
  \/ \E i \in SessionIds : Running /\ OnAccept(i)
  \/ \E i \in SessionIds, dhOk \in BOOLEAN :
        Running /\ OnConnect(i, dhOk, TRUE, LimBodySize + 8)
  \/ \E i \in SessionIds :
        Running /\ OnReadIntro(i, IntroAlone, TRUE, 0, 0)
  \/ \E i \in SessionIds : Running /\ OnEof(i)
  \/ \E i \in SessionIds : Running /\ SendClose(i)
  \/ Running /\ Tick
  \/ Stop
  \/ DestroyLinkLayer

SpecStop == Init /\ [][NextStop]_vars

(***************************************************************************)
(* SpecReject: a ready session receives authentic fragments and the router *)
(* refuses one of the messages they complete                               *)
(***************************************************************************)
RejectBlocks == 3
RejectSizes == {FragmentBufferSize - 1, FragmentBufferSize,
                FragmentBufferSize + 1, 2 * FragmentBufferSize}
\* which message of a delivery the router refuses: none, the first, the
\* second
Rejects == {0, 1, 2}

NextReject ==
  \/ OnAccept(1)
  \/ OnReadIntro(1, IntroAlone, TRUE, 0, RejectBlocks)
  \/ \E sz \in RejectSizes, rej \in Rejects :
        \E bs \in Seqs(RxGood, RxStarts(1, sz)) :
           OnReadStream(1, sz, bs, rej, RejectBlocks)

SpecReject == Init /\ [][NextReject]_vars

(***************************************************************************)
(* Claims                                                                  *)
(***************************************************************************)
\* C1: a session whose state is Closed enqueues nothing, hands no byte to
\* the transport and delivers no message to the router: no step that starts
\* with the session Closed lengthens or changes its send queue, adds to the
\* bytes the transport accepted from it, or adds to the messages delivered.
C1_ClosedIsInert ==
  [][\A i \in SessionIds :
       (sess[i].exists /\ sess[i].state = eClose /\ sess'[i].exists)
       => /\ sess'[i].sendq = sess[i].sendq
          /\ submitted'[i] = submitted[i]
          /\ wire'[i] = wire[i]
          /\ delivered'[i] = delivered[i]]_vars

\* a Closed session that still holds fragments was asked to send a buffer
C1_Witness ==
  /\ sess[1].exists /\ sess[1].state = eClose
  /\ Len(sess[1].sendq) > 0
  /\ last.op = "SendMessageBuffer" /\ last.id = 1

\* C2: QueueWriteBuffers on a session whose state is not SessionReady
\* returns false and leaves sendq, sendBufOffset, stalled and lastActive as
\* they were.
C2_NotReadyFails ==
  [][\A i \in SessionIds :
       (last'.op = "SendMessageBuffer" /\ last'.id = i
        /\ sess[i].state # eSessionReady)
       => /\ last'.ret = FALSE
          /\ sess'[i].sendq = sess[i].sendq
          /\ sess'[i].sendBufOffset = sess[i].sendBufOffset
          /\ sess'[i].stalled = sess[i].stalled
          /\ sess'[i].lastActive = sess[i].lastActive]_vars

\* a session that is not ready, last active before now, refused a buffer
C2_Witness ==
  /\ sess[1].exists /\ sess[1].state # eSessionReady
  /\ sess[1].lastActive < now
  /\ last.op = "SendMessageBuffer" /\ last.id = 1 /\ last.ret = FALSE

\* C3 (as claimed): SendMessageBuffer returns true if and only if it
\* appended at least one fragment to the send queue, for every buffer length
\* from 0 on; checked on sessions that are attached to the link layer and
\* hold their socket.
C3_TrueIffEnqueued ==
  [][\A i \in SessionIds :
       (last'.op = "SendMessageBuffer" /\ last'.id = i
        /\ sess[i].parent /\ sess[i].sock)
       => (last'.ret = TRUE <=> Len(sess'[i].sendq) > Len(sess[i].sendq))]_vars

\* C4: SendMessageBuffer of a buffer of 1..MAX_LINK_MSG_SIZE bytes on a
\* ready session returns true and appends exactly ceil(|M| / 512) fragments
\* of 576 bytes behind what the queue held; opened under the session key,
\* every fragment but the last has CONT_FLAG 1 and LEN 512, the last has
\* CONT_FLAG 0 and LEN |M| - 512 * (n - 1).
C4_Fragmentation ==
  [][\A i \in SessionIds :
       (/\ last'.op = "SendMessageBuffer" /\ last'.id = i
        /\ sess[i].state = eSessionReady /\ sess[i].parent
        /\ Len(sent'[i]) = Len(sent[i]) + 1)
       => LET M == sent'[i][Len(sent'[i])]
              n == (M.sz + FragmentBodyPayloadSize - 1)
                     \div FragmentBodyPayloadSize
              q == sess[i].sendq
              q2 == sess'[i].sendq
              open(f) == xchacha20(f.body, sess[i].sessionKey, f.nonce)
          IN /\ M.sz >= 1 /\ M.sz <= MAX_LINK_MSG_SIZE
             /\ last'.ret = TRUE
             /\ Len(q2) = Len(q) + n
             /\ SubSeq(q2, 1, Len(q)) = q
             /\ \A k \in 1..n :
                  LET b == open(q2[Len(q) + k])
                  IN /\ FragmentHashSize + FragmentNonceSize + Len(b.flag)
                          + Len(b.len) + NBytes(b.area) = FragmentBufferSize
                     /\ bufbe32toh(b.flag) = (IF k < n THEN 1 ELSE 0)
                     /\ bufbe32toh(b.len) =
                          (IF k < n THEN FragmentBodyPayloadSize
                           ELSE M.sz - FragmentBodyPayloadSize * (n - 1))]_vars

\* a buffer of 513 bytes was fragmented behind one of MAX_LINK_MSG_SIZE bytes
C4_Witness ==
  /\ last.op = "SendMessageBuffer" /\ last.id = 1 /\ last.ret = TRUE
  /\ sent[1] = <<Msg("V", MAX_LINK_MSG_SIZE), Msg("Z", 513)>>
  /\ Len(sess[1].sendq) = 18

\* C5: a fragment that EncryptThenHash sealed under a session key, for any
\* payload of at most 512 bytes and either value of isLast, passes
\* VerifyThenDecrypt under the same key in a receiver whose reassembly
\* buffer has room for it: the receiver gets exactly the payload (appended
\* to what it had reassembled), hands the message to the router exactly when
\* isLast was set, and fails only if the router refuses that message.
C5_SealOpenRoundTrip ==
  codec.pc = "opened" =>
    LET in == codec.in
        r == codec.res
        whole == Norm(<<Chunk("prev", 0, in.off)>> \o MsgBytes("P", in.sz))
    IN /\ r.ret = (in.isLast => in.ok)
       /\ ~r.crash
       /\ IF in.isLast
          THEN /\ r.out = <<whole>>
               /\ r.s.recvMsg = <<>> /\ r.s.recvMsgOffset = 0
          ELSE /\ r.out = <<>>
               /\ r.s.recvMsg = whole
               /\ r.s.recvMsgOffset = in.off + in.sz

\* a payload of 511 bytes, not the last of its message, went through the
\* codec behind 512 bytes already reassembled
C5_Witness ==
  /\ codec.pc = "opened"
  /\ codec.in.sz = 511 /\ ~codec.in.isLast
  /\ codec.in.off = FragmentBodyPayloadSize
  /\ codec.res.s.recvMsgOffset = FragmentBodyPayloadSize + 511

C7_WirePrefix ==
  \A i \in SessionIds :
    sess[i].exists =>
      /\ WireFrags(i) = Norm(TakeBytes(Concat(submitted[i]),
                                       NBytes(WireFrags(i))))
      /\ Popped(i) >= 0
      /\ sess[i].sendq = SubSeq(submitted[i], Popped(i) + 1,
                                Len(submitted[i]))
      /\ NBytes(WireFrags(i)) =
           FragmentBufferSize * Popped(i) + sess[i].sendBufOffset

\* the transport took two fragments and, in two short writes, part of the
\* third, then stalled
C7_Witness ==
  /\ sess[1].exists /\ sess[1].stalled
  /\ Popped(1) = 2 /\ sess[1].sendBufOffset = 400
  /\ Len(sess[1].sendq) >= 2
  /\ Len(sent[1]) = 2

\* C8: while a session stays ready on a connected socket whose Writable
\* events recur and accept bytes, a queue that holds fragments eventually
\* becomes empty with every fragment queued so far written in full.
C8_QueueDrains ==
  (/\ sess[1].exists /\ sess[1].state = eSessionReady
   /\ utp[1] = "connected" /\ sess[1].sendq # <<>>)
  ~> (\/ ~sess[1].exists \/ sess[1].state # eSessionReady
      \/ utp[1] # "connected"
      \/ /\ sess[1].sendq = <<>>
         /\ NBytes(WireFrags(1)) = FragmentBufferSize * Len(submitted[1]))

\* a Writable event emptied the queue of a ready session: all three
\* fragments of a buffer are on the wire
C8_Witness ==
  /\ sess[1].exists /\ sess[1].state = eSessionReady
  /\ last.op = "OnWritable" /\ sess[1].sendq = <<>>
  /\ Len(submitted[1]) = 3
  /\ NBytes(WireFrags(1)) = FragmentBufferSize * 3

\* C9: sendBufOffset is always in [0, 576) and is 0 while the queue is
\* empty; while the same fragment stays at the head it never decreases; and
\* once fragments have been popped it counts from 0 the bytes accepted of
\* the new head only.
C9_SendBufOffset ==
  /\ [](\A i \in SessionIds :
          sess[i].exists =>
            /\ sess[i].sendBufOffset >= 0
            /\ sess[i].sendBufOffset < FragmentBufferSize
            /\ (sess[i].sendq = <<>> => sess[i].sendBufOffset = 0))
  /\ [][\A i \in SessionIds :
          (sess[i].exists /\ sess'[i].exists) =>
            LET d == Len(submitted'[i]) - Len(sess'[i].sendq) - Popped(i)
                w == NBytes(SelectSeq(wire'[i],
                                      LAMBDA c : "mac" \in DOMAIN c.src))
                       - NBytes(WireFrags(i))
            IN /\ (d = 0 /\ sess[i].sendq # <<>>)
                    => sess'[i].sendBufOffset >= sess[i].sendBufOffset
               /\ d > 0
                    => sess'[i].sendBufOffset =
                         w - (FragmentBufferSize - sess[i].sendBufOffset)
                           - FragmentBufferSize * (d - 1)]_vars

\* a fragment written in part was finished and popped, and the transport
\* then took part of the next
C9_Witness ==
  /\ sess[1].exists /\ last.op = "OnWritable"
  /\ Popped(1) = 1 /\ sess[1].sendBufOffset = 575
  /\ NBytes(WireFrags(1)) = FragmentBufferSize + 575
  /\ Len(sess[1].sendq) = 1

\* C10: for a session that is not Closed, TimedOut(now) holds exactly when
\* now - lastActive >= 30000; for a Closed session it holds at every time;
\* and a tick removes from the manager every session whose TimedOut(now)
\* holds.
C10_Timeout ==
  /\ [](\A i \in SessionIds :
          sess[i].exists =>
            \A t \in {0, 1, 29999, 30000, 30001, 59999, 60000, now} :
              IF sess[i].state = eClose THEN TimedOut(sess[i], t)
              ELSE TimedOut(sess[i], t)
                     <=> (t - sess[i].lastActive >= 30000))
  /\ [][last'.op = "Tick" =>
          \A i \in m_sessions :
            TimedOut(sess[i], now)
              => (i \notin m_sessions' /\ ~sess'[i].exists)]_vars

\* a tick reaped a session that had sent a buffer and was never closed, and
\* kept one that had been idle for 29999 ms
C10_Witness ==
  /\ last.op = "Tick"
  /\ 1 \in created /\ 1 \notin m_sessions /\ ~sess[1].exists
  /\ sent[1] # <<>> /\ utp[1] = "unbound"
  /\ 2 \in m_sessions /\ sess[2].state # eClose
  /\ now - sess[2].lastActive = sessionTimeout - 1

\* the utp_shutdown calls session i has made, on its socket or on none
Shutdowns(cs) ==
  Len(SelectSeq(cs, LAMBDA e : e \in {"utp_shutdown", "utp_shutdown(nullptr)"}))

\* C11 (as claimed): Close is idempotent.  Whenever Close is called on a
\* session attached to the link layer, the session ends Closed without a
\* socket, utp_shutdown has been called for it exactly once in its life, a
\* Close of a session already Closed makes no call and changes nothing but
\* lastActive, and QueueWriteBuffers after Close returns false.
C11_CloseIdempotent ==
  [][\A i \in SessionIds :
       (last'.op = "SendClose" /\ last'.id = i /\ sess[i].parent)
       => /\ sess'[i].state = eClose
          /\ ~sess'[i].sock
          /\ Shutdowns(calls'[i]) = 1
          /\ sess[i].state = eClose
               => /\ calls'[i] = calls[i]
                  /\ sess'[i] = [sess[i] EXCEPT !.lastActive = now]
          /\ \A buf \in {Msg("X", 0), Msg("X", 1)} :
               ~QueueWriteBuffers(sess'[i], buf, now, "rnd").ret]_vars

\* C12: after any sequence of reads, of any sizes and contents,
\* recvBufOffset is in [0, 576) and recvMsgOffset is in
\* [0, MAX_LINK_MSG_SIZE].
C12_RecvOffsets ==
  \A i \in SessionIds :
    sess[i].exists =>
      /\ sess[i].recvBufOffset >= 0
      /\ sess[i].recvBufOffset < FragmentBufferSize
      /\ sess[i].recvMsgOffset >= 0
      /\ sess[i].recvMsgOffset <= MAX_LINK_MSG_SIZE

\* reads off the fragment boundaries filled the reassembly buffer to its
\* last byte and hold all but the last byte of the next fragment
C12_Witness ==
  /\ last.op = "OnRead" /\ last.id = 1
  /\ sess[1].state = eSessionReady
  /\ sess[1].recvMsgOffset = MAX_LINK_MSG_SIZE
  /\ sess[1].recvBufOffset = FragmentBufferSize - 1

\* C13 (as claimed): a session that is SessionReady (and was established on
\* its link layer) holds a session key that a successful key exchange
\* derived, and that key was derived exactly once in the session's lifetime,
\* whatever events the transport raised, Connect raised again included.
C13_KeyDerivedOnce ==
  \A i \in SessionIds :
    (sess[i].exists /\ sess[i].parent /\ sess[i].state = eSessionReady)
      => /\ sess[i].sessionKey # NoKey
         /\ Derivations(calls[i]) = 1

\* the bytes of LinkIntro frames among the bytes the transport accepted
IntroBytes(cs) == SelectSeq(cs, LAMBDA c : "version" \in DOMAIN c.src)

\* C14 (as claimed): an outbound session hands the transport exactly one
\* LinkIntro frame in its lifetime, whole, and before every byte of every
\* encrypted fragment, whatever events the transport raises and however many
\* bytes utp_write accepts.
C14_OneLinkIntro ==
  \A i \in SessionIds :
    (sess[i].exists /\ sess[i].outbound) =>
      /\ Len(IntroBytes(wire[i])) <= 1
      /\ (sess[i].parent /\ sess[i].state = eSessionReady)
           => NBytes(IntroBytes(wire[i])) = LimBodySize + 8
      /\ Len(IntroBytes(wire[i])) < Len(wire[i])
           => /\ IntroBytes(wire[i]) = <<wire[i][1]>>
              /\ NBytes(IntroBytes(wire[i])) = LimBodySize + 8

\* C15: while the clock does not go back, no operation makes a session's
\* lastActive smaller than it was (and it is never ahead of the clock).
C15_LastActiveMonotone ==
  /\ [](\A i \in SessionIds : sess[i].exists => sess[i].lastActive <= now)
  /\ [][\A i \in SessionIds :
          (sess[i].exists /\ sess'[i].exists)
            => sess'[i].lastActive >= sess[i].lastActive]_vars

\* a session that was active at 0 has just been closed at the last instant
\* of the clock, after it had received a message
C15_Witness ==
  /\ last.op = "SendClose" /\ last.id = 1
  /\ delivered[1] # <<>>
  /\ now = ClockTime
  /\ sess[1].state = eClose /\ sess[1].lastActive = ClockTime

\* C16: every receive that succeeds (Recv answers true) and every submission
\* that succeeds (QueueWriteBuffers answers true) sets lastActive to the
\* current time.
C16_Refreshed ==
  [][\A i \in SessionIds :
       /\ (last'.op = "OnRead" /\ last'.id = i
             /\ sess[i].state = eSessionReady
             /\ sess'[i].state = eSessionReady)
            => sess'[i].lastActive = now
       /\ (last'.op = "SendMessageBuffer" /\ last'.id = i /\ last'.ret)
            => sess'[i].lastActive = now
       /\ \A sz \in {FragmentBufferSize - 1, FragmentBufferSize} :
            LET r == Recv(sess[i], FragBytes(PeerFragment("K1", Msg("A", 1), 0)),
                          sz, now', 0)
            IN r.ret => r.s.lastActive = now']_vars

\* a session idle since 0 has received part of a fragment at a later time
\* and is active as of that time
C16_Witness ==
  /\ last.op = "OnRead" /\ last.id = 1
  /\ sess[1].state = eSessionReady
  /\ sess[1].recvBufOffset = FragmentBufferSize - 1
  /\ now > 0 /\ sess[1].lastActive = now

\* the bodies session i has decrypted: its calls of xchacha20
Decryptions(cs) == Len(SelectSeq(cs, LAMBDA e : e = "xchacha20"))

\* the k-th fragment delivered to session i has arrived whole and its MAC is
\* not the keyed hash of its nonce and body under the session key
Forged(i, k) ==
  LET c == rxStream[i][k]
  IN /\ c.hi = FragmentBufferSize
     /\ c.src.mac # hmac(sess[i].sessionKey, c.src.nonce, c.src.body)

\* the fragments before the k-th that end a message
EndsBefore(i, k) ==
  Cardinality({j \in 1..(k - 1) :
     LET f == rxStream[i][j].src
     IN llarp_buffer_read_uint32(
          xchacha20(f.body, sess[i].sessionKey, f.nonce).flag) = 0})

\* C17: a fragment whose MAC does not verify is rejected before anything is
\* decrypted: VerifyThenDecrypt answers false and leaves the session as it
\* was (recvMsgOffset included), delivers nothing and decrypts nothing; the
\* OnRead that met it leaves the session Closed, and no message is delivered
\* from that fragment or from any byte after it.
C17_MacFailure ==
  \A i \in SessionIds :
    (sess[i].exists /\ sess[i].parent) =>
      /\ sess[i].state = eSessionReady =>
           VerifyThenDecrypt(
             sess[i], FragBytes(Tampered(PeerFragment("K1", Msg("A", 1), 0))),
             TRUE) = Result(sess[i], FALSE)
      /\ \A k \in 1..Len(rxStream[i]) :
           Forged(i, k) =>
             /\ sess[i].state = eClose
             /\ Decryptions(calls[i]) <= k - 1
             /\ Len(delivered[i]) <= EndsBefore(i, k)

\* the second fragment of a read failed its MAC after the first had been
\* delivered: the session is Closed, one body was decrypted, one message
\* delivered, and the bytes that followed were dropped
C17_Witness ==
  /\ last.op = "OnRead" /\ last.id = 1
  /\ Len(rxStream[1]) = 3
  /\ Forged(1, 2)
  /\ rxStream[1][3].hi < FragmentBufferSize
  /\ sess[1].state = eClose
  /\ Decryptions(calls[1]) = 1
  /\ Len(delivered[1]) = 1

\* what session i has called so far
Called(i, e) == \E k \in 1..Len(calls[i]) : calls[i][k] = e

\* the step just taken is the OnRead of session i, awaiting the LinkIntro,
\* for the delivery d, with dh() answering dhOk
ReadIntro(i, d, dhOk) ==
  LET r == OnRead(sess[i], [buf |-> <<>>, sz |-> d.sz, d |-> d], dhOk, "K1",
                  now, 0)
  IN /\ sess[i].exists /\ ~sess[i].outbound
     /\ sess[i].state = eLinkEstablished
     /\ last'.op = "OnRead" /\ last'.id = i
     /\ sess'[i] = r.s
     /\ calls'[i] = calls[i] \o r.ev

\* C18: an inbound session that awaits the LinkIntro and is delivered one
\* whose VERSION is not LLARP_PROTO_VERSION is Closed within that OnRead; no
\* key exchange is made, the manager's pubkey index gets no entry for it and
\* the router is not told of an established session.
C18_VersionMismatch ==
  /\ [][\A i \in SessionIds, d \in IntroDeliveries, dhOk \in BOOLEAN :
          (ReadIntro(i, d, dhOk)
             /\ bufbe32toh(d.version) # LLARP_PROTO_VERSION)
            => /\ sess'[i].state = eClose
               /\ sess'[i].sessionKey = NoKey
               /\ Derivations(calls'[i]) = 0
               /\ \A e \in m_pubkeys' : e[2] # i]_vars
  /\ [](\A i \in SessionIds :
          (\E e \in m_pubkeys : e[2] = i) \/ Called(i, "MapAddr")
             \/ Called(i, "HandleLinkSessionEstablished")
            => Derivations(calls[i]) > 0 \/ sess[i].outbound)

\* an accepted session was Closed by its first OnRead before it had taken a
\* router contact or derived a key
C18_Witness ==
  /\ last.op = "OnRead" /\ last.id = 1
  /\ ~sess[1].outbound /\ sess[1].state = eClose
  /\ calls[1] = <<"utp_shutdown", "utp_close">>
  /\ sess[1].remoteRC = "none" /\ sess[1].sessionKey = NoKey
  /\ m_pubkeys = {}

\* the delivery d holds a LinkIntro of the right version whose LIM fits in it
\* and decodes
WellFormed(d) ==
  /\ d.sz > 8
  /\ bufbe32toh(d.version) = LLARP_PROTO_VERSION
  /\ bufbe32toh(d.limsz) <= d.sz - 8
  /\ d.lim.decodes

\* C19 (as claimed): a LinkIntro whose router contact fails signature
\* verification (HandleMessage answers false) closes the inbound session:
\* after that OnRead the session is Closed.
C19_BadSignatureCloses ==
  [][\A i \in SessionIds, d \in IntroDeliveries, dhOk \in BOOLEAN :
       (ReadIntro(i, d, dhOk) /\ WellFormed(d) /\ ~d.lim.verifies)
         => sess'[i].state = eClose]_vars

Oversized ==
  {SealedFragment("K1", 1, FragmentBodyPayloadSize + 1, "F"),
   SealedFragment("K1", 1, MAX_LINK_MSG_SIZE, "G"),
   SealedFragment("K1", 0, MAX_LINK_MSG_SIZE + 1, "H")}

\* C21 (as claimed): VerifyThenDecrypt answers false for every authentic
\* fragment whose LEN is greater than 512 or whose LEN plus recvMsgOffset is
\* greater than MAX_LINK_MSG_SIZE, and appends none of its bytes to the
\* reassembly buffer.
C21_OversizeRejected ==
  \A i \in SessionIds :
    (sess[i].exists /\ sess[i].parent /\ sess[i].state = eSessionReady) =>
      \A f \in Oversized :
        LET r == VerifyThenDecrypt(sess[i], FragBytes(f), TRUE)
        IN /\ ~r.ret
           /\ r.s.recvMsg = sess[i].recvMsg
           /\ r.s.recvMsgOffset = sess[i].recvMsgOffset
           /\ r.out = <<>>

\* the delivery d holds a valid LinkIntro and more bytes after it
WithTrailing(d) == WellFormed(d) /\ d.lim.verifies /\ d.rest # <<>>

\* C22 (as claimed): the bytes that follow a valid LinkIntro in the same
\* delivery are consumed by Recv as the first ciphertext of the session:
\* the session ends up as if the LinkIntro had come alone and Recv had then
\* been handed those bytes (a whole fragment opened, its message delivered;
\* a part of one buffered in recvBuf).
C22_TrailingBytesConsumed ==
  [][\A i \in SessionIds, d \in IntroDeliveries :
       (ReadIntro(i, d, TRUE) /\ WithTrailing(d)
          /\ rxStream'[i] = Norm(rxStream[i] \o d.rest))
         => LET alone == OnRead(sess[i],
                                [buf |-> <<>>, sz |-> d.sz - NBytes(d.rest),
                                 d |-> [d EXCEPT !.sz = @ - NBytes(d.rest),
                                                 !.rest = <<>>]],
                                TRUE, "K1", now, 0)
                then == Recv(alone.s, d.rest, NBytes(d.rest), now, 0)
            IN /\ sess'[i] = then.s
               /\ delivered'[i] = delivered[i] \o then.out]_vars

\* the place of a state in the order the handshake passes through
Rank(st) ==
  CASE st = eInitial -> 0
    [] st = eConnecting -> 1
    [] st = eLinkEstablished -> 2
    [] st = eCryptoHandshake -> 3
    [] st = eSessionReady -> 4
    [] OTHER -> 5

\* C23 (as claimed): NewOutboundSession returns a session in Initial, Start
\* leaves it Connecting, and every operation moves an outbound session's
\* state forward in the order Initial, Connecting, LinkEstablished,
\* CryptoHandshake, SessionReady, or to Closed.
C23_StateOrder ==
  [][\A i \in SessionIds :
       /\ (last'.op = "NewOutboundSession" /\ last'.id = i)
            => sess'[i].state = eInitial
       /\ (last'.op = "Start" /\ last'.id = i)
            => sess'[i].state = eConnecting
       /\ (sess[i].exists /\ sess[i].outbound /\ sess'[i].exists)
            => Rank(sess'[i].state) >= Rank(sess[i].state)]_vars

\* C24 (as claimed): when the stopped link layer releases its transport
\* context, every session it tracks is Closed and holds no socket.
C24_StopClosesSessions ==
  [][last'.op = "~LinkLayer"
       => \A i \in m_sessions : sess[i].state = eClose /\ ~sess[i].sock]_vars

\* the calls by which session i was entered in the pubkey index and
\* announced to the router, in the order it made them
Established(cs) ==
  SelectSeq(cs, LAMBDA e : e \in {"MapAddr", "HandleLinkSessionEstablished"})

\* C25 (as claimed): a session that enters SessionReady is entered in the
\* manager's pubkey index under its peer's key and then announced to the
\* router, and over its whole life, whatever events the transport raises,
\* each of the two happens exactly once.
C25_MappedThenAnnouncedOnce ==
  \A i \in SessionIds :
    (sess[i].exists /\ sess[i].parent) =>
      /\ Established(calls[i]) \in
           {<<>>, <<"MapAddr", "HandleLinkSessionEstablished">>}
      /\ sess[i].state = eSessionReady
           => /\ Established(calls[i]) # <<>>
              /\ <<sess[i].remoteRC, i>> \in m_pubkeys

\* the fragments of SpecRecvAny whose MAC is good under the session key
Authentic == {f \in AnyFragments : f.mac = hmac("K1", f.nonce, f.body)}

\* the header and payload area of fragment f, decrypted
Plain(f) == xchacha20(f.body, "K1", f.nonce)

\* the LEN bytes of payload fragment f carries
Payload(f) == TakeBytes(Plain(f).area, llarp_buffer_read_uint32(Plain(f).len))

\* C26 (as claimed): opening a fragment delivers a message only if its
\* CONT_FLAG is 0; what is delivered is what the fragments opened since the
\* last delivery carried, their LEN-byte payloads in arrival order, and
\* recvMsgOffset is 0 after the delivery; a fragment with CONT_FLAG set
\* adds its LEN-byte payload to the message being reassembled.
C26_DeliversWholeMessages ==
  \A i \in SessionIds :
    (sess[i].exists /\ sess[i].parent /\ sess[i].state = eSessionReady) =>
      /\ sess[i].recvMsgOffset = NBytes(sess[i].recvMsg)
      /\ \A f \in Authentic :
           LET r == VerifyThenDecrypt(sess[i], FragBytes(f), TRUE)
               last_ == llarp_buffer_read_uint32(Plain(f).flag) = 0
           IN /\ r.out # <<>> => last_
              /\ r.ret =>
                   IF last_
                   THEN /\ r.out = <<Append2(sess[i].recvMsg, Payload(f))>>
                        /\ r.s.recvMsgOffset = 0
                        /\ r.s.recvMsg = <<>>
                   ELSE /\ r.out = <<>>
                        /\ r.s.recvMsg = Append2(sess[i].recvMsg, Payload(f))
                        /\ r.s.recvMsgOffset = NBytes(r.s.recvMsg)

\* C27 (as claimed): once Close has run on a session its state is Closed and
\* stays Closed, through the rest of the operation that called Close and
\* through every later operation and transport event.
C27_ClosedStaysClosed ==
  \A i \in SessionIds :
    (sess[i].exists
       /\ (Called(i, "utp_close") \/ Called(i, "utp_close(nullptr)")))
      => sess[i].state = eClose

\* C28: while a session is stalled nothing but a Writable event makes it
\* write: the manager's Pump leaves the session, its queue and sendBufOffset
\* as they were and hands the transport nothing, and no other operation puts
\* a byte on the wire or moves sendBufOffset. A Writable event clears stalled
\* and enters PumpWrite if the session is SessionReady or LinkEstablished,
\* and does nothing otherwise.
C28_StalledWaitsForWritable ==
  [][\A i \in SessionIds :
       /\ (sess[i].exists /\ sess[i].stalled /\ last'.op = "Pump")
            => sess'[i] = sess[i] /\ wire'[i] = wire[i]
       /\ (sess[i].exists /\ sess[i].stalled /\ sess'[i].exists
             /\ last'.op # "OnWritable")
            => /\ wire'[i] = wire[i]
               /\ sess'[i].sendBufOffset = sess[i].sendBufOffset
               /\ sess'[i].stalled
       /\ (sess[i].exists /\ last'.op = "OnWritable" /\ last'.id = i)
            => IF IsEstablished(sess[i])
               THEN \E p \in Pumps(i, SendShorts) :
                      LET r == PumpWrite([sess[i] EXCEPT !.stalled = FALSE],
                                         p[1], p[2])
                      IN sess'[i] = r.s /\ wire'[i] = Norm(wire[i] \o r.tx)
               ELSE sess'[i] = sess[i] /\ wire'[i] = wire[i]
       /\ (sess[i].exists /\ ~IsEstablished(sess[i]))
            => \A short \in SendShorts :
                 OnStateChange_WRITABLE(sess[i], 0, short)
                   = Result(sess[i], TRUE)
       /\ (sess[i].exists /\ IsEstablished(sess[i]) /\ sess[i].sock
             /\ sess[i].stalled /\ sess[i].sendq # <<>>)
            => LET r == OnStateChange_WRITABLE(sess[i], Len(sess[i].sendq), 0)
               IN /\ ~r.s.stalled
                  /\ r.s.sendq = <<>>
                  /\ NBytes(r.tx) = FragmentBufferSize * Len(sess[i].sendq)
                                      - sess[i].sendBufOffset]_vars

\* the manager pumped a session that had stalled twice, 400 bytes into its
\* first fragment: the second short write was made on a Writable event, and
\* the pump changed nothing
C28_Witness ==
  /\ last.op = "Pump"
  /\ sess[1].exists /\ sess[1].state = eSessionReady
  /\ utp[1] = "connected"
  /\ sess[1].stalled /\ sess[1].sendBufOffset = 400
  /\ Popped(1) = 0 /\ Len(sess[1].sendq) = 2
  /\ NBytes(WireFrags(1)) = 400

\* the step just taken is the OnRead of ready session i for a delivery of sz
\* bytes in which the fragments bs start, the router refusing the rej-th
\* message of the delivery
ReadStream(i, sz, bs, rej) ==
  LET buf == RxBytes(i, sz, bs)
      r == OnRead(sess[i], [buf |-> buf, sz |-> sz, d |-> NoDelivery], TRUE,
                  "K1", now, rej)
  IN /\ sess[i].exists /\ sess[i].state = eSessionReady
     /\ Len(bs) = RxStarts(i, sz)
     /\ last'.op = "OnRead" /\ last'.id = i
     /\ sess'[i] = r.s
     /\ delivered'[i] = delivered[i] \o r.out
     /\ calls'[i] = calls[i] \o r.ev
     /\ rxStream'[i] = Norm(rxStream[i] \o buf)
     /\ rej >= 1 /\ Len(r.out) >= rej

\* C29: when the router refuses a reassembled message, the OnRead that
\* delivered it leaves the session Closed with recvMsgOffset 0; the refused
\* message is the last one of that delivery handed to the router, its last
\* fragment is the last one opened, and the bytes after it are neither
\* opened nor kept in recvBuf.
C29_RouterRejectCloses ==
  [][\A i \in SessionIds, sz \in RejectSizes, rej \in Rejects :
       \A bs \in Seqs(RxGood, RxStarts(i, sz)) :
         ReadStream(i, sz, bs, rej)
           => /\ sess'[i].state = eClose
              /\ sess'[i].recvMsgOffset = 0
              /\ sess'[i].recvBufOffset = 0 /\ sess'[i].recvBuf = <<>>
              /\ Len(delivered'[i]) = Len(delivered[i]) + rej
              /\ LET k == Decryptions(calls'[i])
                 IN /\ k <= Len(rxStream'[i])
                    /\ llarp_buffer_read_uint32(
                         Plain(rxStream'[i][k].src).flag) = 0]_vars

\* the router refused the first message of a session whose stream held two
\* whole fragments: the session is Closed, one fragment was opened, one
\* message handed over, and the second fragment was left alone
C29_Witness ==
  /\ last.op = "OnRead" /\ last.id = 1
  /\ sess[1].state = eClose
  /\ NBytes(rxStream[1]) = 2 * FragmentBufferSize
  /\ Decryptions(calls[1]) = 1
  /\ Len(delivered[1]) = 1
  /\ sess[1].recvMsgOffset = 0 /\ sess[1].recvBufOffset = 0
====
